---- MODULE Spec2Model ----
(***************************************************************************)
(* Model of the DINO analyzer (trashchenkov/dino).                         *)
(*                                                                         *)
(*   Spec      the extractor: DinosaurAnalyzer.__init__, analyze_image and *)
(*             analyze_image_from_pil of dino_analyzer.py, run by two      *)
(*             callers whose steps interleave, over a temporary directory  *)
(*             and an inference service whose answers are inputs.          *)
(*   SpecNorm  the normalizer: optimize_image_for_api of utils.py applied  *)
(*             to images drawn from a bounded set, once and then again to  *)
(*             its own output.                                             *)
(*   SpecJson  DinosaurInfo.model_dump_json followed by model_validate_json *)
(*             on records drawn from a bounded set.                        *)
(*   SpecRecord  attribute assignment on a returned DinosaurInfo.          *)
(*   SpecSize  format_file_size of utils.py on byte counts drawn from a    *)
(*             bounded set.                                                *)
(*   SpecFront the analyse button of app.py and streamlit_app.py, pressed  *)
(*             in two sessions whose handlers interleave.                  *)
(***************************************************************************)
EXTENDS Integers, Sequences, FiniteSets, TLC

VARIABLES env, configured, fs, pc, api, arg, analyzer, input, temp, nreq, out,
          result, exc, client, cleaned, img, once, twice, stage, after,
          jrec, jorig, jtext, jback, jstage, size, label, secret, front

extractorVars == <<env, configured, fs, pc, api, arg, analyzer, input, temp,
                   nreq, out, result, exc, client, cleaned>>
normVars == <<img, once, twice, stage, after>>
pureVars == <<jrec, jorig, jtext, jback, jstage, size, label>>
frontVars == <<secret, front>>
vars == <<extractorVars, normVars, pureVars, frontVars>>

(***************************************************************************)
(* Values                                                                  *)
(***************************************************************************)

\* Python's None, for the values that are strings or None.
None == "None"

\* The callers whose calls interleave (app.py builds one analyzer per press).
Callers == {"c1", "c2"}

\* Number of distinct names uuid4().hex[:8] can yield in the model.
NumNames == 2

Names == 1..NumNames

\* No file under a name.
NoFile == "nofile"

\* Credentials a caller may pass, and values the environment may hold.
ApiKeyArgs == {None, "", "k1"}
EnvValues == {None, "", "kenv"}

\* Python truthiness of an Optional[str]: `not api_key`.
Truthy(s) == s # None /\ s # ""

\* The four fields of DinosaurInfo, in declaration order.
Fields == <<"species_name", "color_description", "geological_period", "brief_info">>
FieldSet == {Fields[i] : i \in 1..Len(Fields)}

\* Text values a JSON string may carry (the empty text, Latin and non-Latin).
Texts == {"", "Rex"}

\* A JSON member: absent, a number, null, or a string s.
Absent == [t |-> "absent", s |-> ""]
Number == [t |-> "num", s |-> ""]
Null == [t |-> "null", s |-> ""]
Str(x) == [t |-> "str", s |-> x]
Defects == {Absent, Number, Null}

\* JSON objects the service may return: every combination of text values, and
\* every single-field defect (the other three fields holding text).
GoodObjects == [FieldSet -> {Str(x) : x \in Texts}]
BadObjects == {[o EXCEPT ![f] = d] : o \in {[g \in FieldSet |-> Str("Rex")]},
                                       f \in FieldSet, d \in Defects}
Payloads == {[shape |-> "object", f |-> o] : o \in GoodObjects \cup BadObjects}
              \cup {[shape |-> s, f |-> [g \in FieldSet |-> Absent]] :
                      s \in {"malformed", "list"}}
NoPayload == [shape |-> "none", f |-> [g \in FieldSet |-> Absent]]

\* What one generate_content call can end in: a response whose text is the
\* payload, a response whose .text accessor raises (blocked, no parts), or an
\* exception of the named class raised by the call itself.
ServiceOutcomes == {[kind |-> "text", exn |-> "", payload |-> p] : p \in Payloads}
                     \cup {[kind |-> "notext", exn |-> "ValueError", payload |-> NoPayload]}
                     \cup {[kind |-> "raise", exn |-> e, payload |-> NoPayload] :
                             e \in {"JSONDecodeError", "Exception"}}
NoOutcome == [kind |-> "none", exn |-> "", payload |-> NoPayload]

(***************************************************************************)
(* Pure parts of the extractor                                             *)
(***************************************************************************)

\* Variant: `api_key = api_key or os.getenv('GEMINI_API_KEY')`.
EffectiveKeyOr(api_key, e) == IF Truthy(api_key) THEN api_key ELSE e

\* dino_analyzer.py 28-29: the environment is read only when api_key is None.
EffectiveKey(api_key, e) == IF api_key = None THEN e ELSE api_key

\* Variant: the check reads `if api_key is None` (an empty string passes).
CredentialMissingNoneOnly(api_key, e) == EffectiveKey(api_key, e) = None

\* dino_analyzer.py 31: `if not api_key: raise ValueError(...)`.
CredentialMissing(api_key, e) == ~Truthy(EffectiveKey(api_key, e))

\* Variant: the fields are declared Optional[str] = None (absent and null pass).
ValidatesOptional(p) == /\ p.shape = "object"
                        /\ \A g \in FieldSet : p.f[g].t \in {"str", "null", "absent"}

\* Variant: the fields are declared with min_length=1.
ValidatesNonEmpty(p) == /\ p.shape = "object"
                        /\ \A g \in FieldSet : p.f[g].t = "str" /\ p.f[g].s # ""

\* DinosaurInfo.model_validate_json accepts a payload iff it is one JSON
\* object in which each of the four required str fields is present with a
\* JSON string (pydantic v2 does not coerce numbers or null to str).
Validates(p) == /\ p.shape = "object"
                /\ \A g \in FieldSet : p.f[g].t = "str"

\* Variant: every field is filled from species_name.
RecordOfFirstField(p) == [g \in FieldSet |-> p.f["species_name"].s]

\* The record model_validate_json builds from an accepted payload.
RecordOf(p) == [g \in FieldSet |-> p.f[g].s]

\* A returned value: <<>> is None, <<r>> is the record r.
ReturnNone == [ret |-> <<>>, exc |-> None]
ReturnRecord(r) == [ret |-> <<r>>, exc |-> None]
Propagate(e) == [ret |-> <<>>, exc |-> e]

\* Whether `response` is bound when the handlers run: generate_content
\* returned (lines 97 / 130 completed their assignment).
ResponseBound(o) == o.kind \in {"text", "notext"}

\* analyze_image, lines 97-111, from the moment generate_content ends in o.
AfterRequestPath(o) ==
    IF o.kind = "raise" /\ o.exn = "JSONDecodeError"
    THEN \* line 105 reads response.text with no guard
         IF ResponseBound(o) THEN ReturnNone ELSE Propagate("UnboundLocalError")
    ELSE IF o.kind = "raise" \/ o.kind = "notext"
    THEN ReturnNone    \* `except Exception`, lines 107-111
    ELSE IF Validates(o.payload)
    THEN ReturnRecord(RecordOf(o.payload))    \* lines 100-101
    ELSE ReturnNone    \* ValidationError is no JSONDecodeError: lines 107-111

\* Variant: analyze_image_from_pil without the guard of line 138.
AfterRequestPilUnguarded(o) == AfterRequestPath(o)

\* analyze_image_from_pil, lines 130-145: as above, but line 138 guards the
\* read of response.text with 'response' in locals().
AfterRequestPil(o) ==
    IF o.kind = "raise" \/ o.kind = "notext"
    THEN ReturnNone
    ELSE IF Validates(o.payload)
    THEN ReturnRecord(RecordOf(o.payload))
    ELSE ReturnNone

AfterRequest(method, o) ==
    IF method = "path" THEN AfterRequestPath(o) ELSE AfterRequestPil(o)

\* utils.py 110-118: save_temp_image writes the file under the drawn name
\* (an existing file of that name is overwritten) on behalf of caller c.
save_temp_image(f, name, c) == [f EXCEPT ![name] = c]

\* Variant: the existence test is inverted, so an existing file is kept.
cleanup_temp_file_inverted(f, name) ==
    IF f[name] = NoFile THEN [f EXCEPT ![name] = NoFile] ELSE f

\* utils.py 131-137: cleanup_temp_file removes the file if it exists. The
\* `except Exception: return False` of lines 136-137 is not reached: os.remove
\* of an existing file of the process's own temporary directory succeeds.
cleanup_temp_file(f, name) ==
    IF f[name] # NoFile THEN [f EXCEPT ![name] = NoFile] ELSE f

\* Variant: os.remove is called with no existence test and no try, so a
\* missing path raises FileNotFoundError.
cleanup_result_unguarded(f, name) ==
    IF f[name] # NoFile THEN "True" ELSE "raised"

\* utils.py 131-137: what cleanup_temp_file hands back: True after removing
\* an existing file (134), False for a missing path (135).
cleanup_result(f, name) ==
    IF f[name] # NoFile THEN "True" ELSE "False"

\* The `finally` of analyze_image_from_pil, lines 146-149.
FinallyCleanup(f, t) ==
    IF t = {} THEN f ELSE cleanup_temp_file(f, CHOOSE n \in t : TRUE)

\* What the cleanup_temp_file call of line 149 hands back ("none": no call).
FinallyResult(f, t) ==
    IF t = {} THEN "none" ELSE cleanup_result(f, CHOOSE n \in t : TRUE)

\* dino_analyzer.py 37-45 and 97/130: the key goes to genai.configure, the
\* module-wide configuration, and not to GenerativeModel; the model creates
\* its client from that configuration on its first generate_content and
\* keeps it. cl is the model's client key (None: not yet created), conf the
\* module-wide key, own the key its constructor was given.
ClientOnFirstUse(cl, conf, own) == IF cl = None THEN conf ELSE cl

(***************************************************************************)
(* The extractor's state machine                                           *)
(***************************************************************************)

\* Inputs of analyze_image (a path) and analyze_image_from_pil (an image).
\* "truncated" is an image that opens and verifies but fails when its pixel
\* data is loaded.
PathInputs == {"missing", "corrupt", "truncated", "ok"}
PilInputs == {"truncated", "ok"}
NoInput == "none"

\* An idle caller: no analyzer, no call.
ClearCall(c) ==
    /\ api' = [api EXCEPT ![c] = "none"]
    /\ input' = [input EXCEPT ![c] = NoInput]
    /\ temp' = [temp EXCEPT ![c] = {}]
    /\ nreq' = [nreq EXCEPT ![c] = 0]
    /\ out' = [out EXCEPT ![c] = NoOutcome]
    /\ result' = [result EXCEPT ![c] = <<>>]
    /\ exc' = [exc EXCEPT ![c] = None]
    /\ cleaned' = [cleaned EXCEPT ![c] = "none"]

\* The normalizer is not running (Spec).
NormIdle == /\ img = <<>> /\ once = <<>> /\ twice = <<>> /\ stage = "off"
            /\ after = <<>>

\* The pure functions of SpecJson, SpecRecord and SpecSize are not running.
PureIdle == /\ jrec = <<>> /\ jorig = <<>> /\ jtext = <<>> /\ jback = <<>>
            /\ jstage = "off" /\ size = <<>> /\ label = ""

\* No web front end is running.
FrontIdle == /\ secret = None
             /\ front = [c \in Callers |-> [app |-> "none", text |-> "", last |-> "none"]]

\* No caller has constructed an analyzer; the temporary directory is empty.
ExtractorIdle ==
    /\ configured = None
    /\ fs = [n \in Names |-> NoFile]
    /\ pc = [c \in Callers |-> "idle"]
    /\ api = [c \in Callers |-> "none"]
    /\ arg = [c \in Callers |-> None]
    /\ analyzer = [c \in Callers |-> None]
    /\ input = [c \in Callers |-> NoInput]
    /\ temp = [c \in Callers |-> {}]
    /\ nreq = [c \in Callers |-> 0]
    /\ out = [c \in Callers |-> NoOutcome]
    /\ result = [c \in Callers |-> <<>>]
    /\ exc = [c \in Callers |-> None]
    /\ client = [c \in Callers |-> None]
    /\ cleaned = [c \in Callers |-> "none"]

Init ==
    /\ env \in EnvValues
    /\ ExtractorIdle
    /\ NormIdle
    /\ PureIdle
    /\ FrontIdle

\* DinosaurAnalyzer.__init__(api_key), lines 21-70.
Construct(c, api_key) ==
    /\ pc[c] = "idle"
    /\ arg' = [arg EXCEPT ![c] = api_key]
    /\ IF CredentialMissing(api_key, env)
       THEN /\ pc' = [pc EXCEPT ![c] = "raised"]
            /\ exc' = [exc EXCEPT ![c] = "ValueError"]
            /\ UNCHANGED <<configured, analyzer>>
       ELSE /\ configured' = EffectiveKey(api_key, env)
            /\ analyzer' = [analyzer EXCEPT ![c] = EffectiveKey(api_key, env)]
            /\ pc' = [pc EXCEPT ![c] = "ready"]
            /\ exc' = exc
    /\ UNCHANGED <<env, fs, api, input, temp, nreq, out, result, client, cleaned,
                   normVars, pureVars, frontVars>>

\* Variant: the checks of lines 84-90 come after the request, so a file that
\* is no image is submitted too.
AnalyzeImageUnchecked(c, file) ==
    /\ pc[c] = "ready"
    /\ api' = [api EXCEPT ![c] = "path"]
    /\ input' = [input EXCEPT ![c] = file]
    /\ IF file \in {"ok", "corrupt"}
       THEN /\ nreq' = [nreq EXCEPT ![c] = @ + 1]
            /\ client' = [client EXCEPT
                             ![c] = ClientOnFirstUse(@, configured, analyzer[c])]
            /\ pc' = [pc EXCEPT ![c] = "submitted"]
       ELSE /\ pc' = [pc EXCEPT ![c] = "returned"]
            /\ UNCHANGED <<nreq, client>>
    /\ UNCHANGED <<env, configured, fs, arg, analyzer, temp, out, result, exc,
                   cleaned, normVars, pureVars, frontVars>>

\* analyze_image(image_path), lines 82-97: up to the request.
AnalyzeImage(c, file) ==
    /\ pc[c] = "ready"
    /\ api' = [api EXCEPT ![c] = "path"]
    /\ input' = [input EXCEPT ![c] = file]
    /\ IF file = "ok"
       THEN /\ nreq' = [nreq EXCEPT ![c] = @ + 1]
            /\ client' = [client EXCEPT
                             ![c] = ClientOnFirstUse(@, configured, analyzer[c])]
            /\ pc' = [pc EXCEPT ![c] = "submitted"]
       ELSE \* lines 84-90 return None; a load error is caught at 107-111
            /\ pc' = [pc EXCEPT ![c] = "returned"]
            /\ UNCHANGED <<nreq, client>>
    /\ UNCHANGED <<env, configured, fs, arg, analyzer, temp, out, result, exc,
                   cleaned, normVars, pureVars, frontVars>>

\* analyze_image_from_pil(image), lines 123-130: up to the request.
AnalyzeFromPil(c, image, name) ==
    /\ pc[c] = "ready"
    /\ api' = [api EXCEPT ![c] = "pil"]
    /\ input' = [input EXCEPT ![c] = image]
    /\ IF image = "ok"
       THEN /\ fs' = save_temp_image(fs, name, c)
            /\ temp' = [temp EXCEPT ![c] = {name}]
            /\ nreq' = [nreq EXCEPT ![c] = @ + 1]
            /\ client' = [client EXCEPT
                             ![c] = ClientOnFirstUse(@, configured, analyzer[c])]
            /\ pc' = [pc EXCEPT ![c] = "submitted"]
       ELSE \* save_temp_image raises before it writes: temp_path stays None
            /\ pc' = [pc EXCEPT ![c] = "returned"]
            /\ UNCHANGED <<fs, temp, nreq, client>>
    /\ UNCHANGED <<env, configured, arg, analyzer, out, result, exc, cleaned,
                   normVars, pureVars, frontVars>>

\* Variant: a failed attempt is submitted once more before giving up.
ServiceReturnRetry(c, o) ==
    /\ pc[c] = "submitted"
    /\ out' = [out EXCEPT ![c] = o]
    /\ LET r == AfterRequest(api[c], o) IN
         IF r.ret = <<>> /\ nreq[c] < 2
         THEN /\ nreq' = [nreq EXCEPT ![c] = @ + 1]
              /\ UNCHANGED <<result, exc, pc, fs, cleaned>>
         ELSE /\ result' = [result EXCEPT ![c] = r.ret]
              /\ exc' = [exc EXCEPT ![c] = r.exc]
              /\ pc' = [pc EXCEPT ![c] = IF r.exc = None THEN "returned" ELSE "raised"]
              /\ fs' = IF api[c] = "pil" THEN FinallyCleanup(fs, temp[c]) ELSE fs
              /\ cleaned' = IF api[c] = "pil"
                            THEN [cleaned EXCEPT ![c] = FinallyResult(fs, temp[c])]
                            ELSE cleaned
              /\ nreq' = nreq
    /\ UNCHANGED <<env, configured, api, arg, analyzer, input, temp, client,
                   normVars, pureVars, frontVars>>

\* The request of caller c ends in o: the rest of the method, its handlers and
\* (analyze_image_from_pil) its finally.
ServiceReturn(c, o) ==
    /\ pc[c] = "submitted"
    /\ out' = [out EXCEPT ![c] = o]
    /\ LET r == AfterRequest(api[c], o) IN
         /\ result' = [result EXCEPT ![c] = r.ret]
         /\ exc' = [exc EXCEPT ![c] = r.exc]
         /\ pc' = [pc EXCEPT ![c] = IF r.exc = None THEN "returned" ELSE "raised"]
    /\ fs' = IF api[c] = "pil" THEN FinallyCleanup(fs, temp[c]) ELSE fs
    /\ cleaned' = IF api[c] = "pil"
                  THEN [cleaned EXCEPT ![c] = FinallyResult(fs, temp[c])]
                  ELSE cleaned
    /\ UNCHANGED <<env, configured, api, arg, analyzer, input, temp, nreq, client,
                   normVars, pureVars, frontVars>>

\* The caller issues another call on the analyzer it holds.
NewCall(c) ==
    /\ pc[c] \in {"returned", "raised"}
    /\ analyzer[c] # None
    /\ pc' = [pc EXCEPT ![c] = "ready"]
    /\ ClearCall(c)
    /\ UNCHANGED <<env, configured, fs, arg, analyzer, client, normVars, pureVars, frontVars>>

\* The caller drops its analyzer (app.py builds a new one per press).
Discard(c) ==
    /\ pc[c] \in {"returned", "raised"}
    /\ pc' = [pc EXCEPT ![c] = "idle"]
    /\ arg' = [arg EXCEPT ![c] = None]
    /\ analyzer' = [analyzer EXCEPT ![c] = None]
    /\ client' = [client EXCEPT ![c] = None]
    /\ ClearCall(c)
    /\ UNCHANGED <<env, configured, fs, normVars, pureVars, frontVars>>

Next ==
    \/ \E c \in Callers, k \in ApiKeyArgs : Construct(c, k)
    \/ \E c \in Callers, f \in PathInputs : AnalyzeImage(c, f)
    \/ \E c \in Callers, i \in PilInputs, n \in Names : AnalyzeFromPil(c, i, n)
    \/ \E c \in Callers, o \in ServiceOutcomes : ServiceReturn(c, o)
    \/ \E c \in Callers : NewCall(c)
    \/ \E c \in Callers : Discard(c)

Spec == Init /\ [][Next]_vars

(***************************************************************************)
(* The normalizer: utils.py 48-93                                          *)
(***************************************************************************)

\* utils.py 48: max_size = (1024, 1024).
MaxSize == 1024

\* Input dimensions: 1..SmallDims, MaxSize-NearDims..MaxSize+NearDims, and
\* three larger sizes (half again, double and about four times the bound).
SmallDims == 3
NearDims == 2
Dims == (1..SmallDims) \cup ((MaxSize - NearDims)..(MaxSize + NearDims))
          \cup {MaxSize + MaxSize \div 2, 2 * MaxSize, 4 * MaxSize - 96}

\* Pillow modes the code distinguishes: RGB, the three of line 83, and two
\* other modes, one without alpha (L) and one with (RGBa, premultiplied).
Modes == {"RGB", "RGBA", "LA", "P", "L", "RGBa"}

\* Modes that can carry transparency (P through its transparency entry).
AlphaModes == {"RGBA", "LA", "P", "RGBa"}

\* EXIF orientation: 0 stands for no tag, 1..8 are the tag's values.
Orients == 0..8
Swapping == 5..8

\* An operation on the raster, as recorded in an image's px.
Op(name, a, b) == [op |-> name, a |-> a, b |-> b]

\* An image: size, mode, orientation tag, px, the operations that produced
\* its raster from the source raster (<<>> is the source itself), and one
\* sample pixel inside a uniform region of the raster: its colour sc and its
\* alpha sa ("clear" is fully transparent). Only an alpha mode has a clear
\* pixel, and in premultiplied RGBa a clear pixel's colour is black.
Images == {i \in [w : Dims, h : Dims, mode : Modes, orient : Orients, px : {<<>>},
                  sc : {"black", "white"}, sa : {"opaque", "clear"}] :
             /\ i.sa = "clear" => i.mode \in AlphaModes
             /\ (i.mode = "RGBa" /\ i.sa = "clear") => i.sc = "black"}

Abs(x) == IF x < 0 THEN -x ELSE x
Max2(a, b) == IF a >= b THEN a ELSE b

\* Pillow's round_aspect inside Image.thumbnail: of floor and ceil of
\* num/den the one with the smaller key, floor on ties, and at least 1.
\* keyF and keyC are the two keys scaled by a common positive factor.
RoundAspect(num, den, keyF, keyC) ==
    LET fl == num \div den
        ce == IF num % den = 0 THEN fl ELSE fl + 1
    IN Max2(IF keyF <= keyC THEN fl ELSE ce, 1)

\* Pillow's Image.thumbnail((mx, my)) as called at utils.py 61: the size it
\* gives an image of size (w, h); the image is changed in place.
ThumbnailSize(w, h, mx, my) ==
    IF mx >= w /\ my >= h THEN [w |-> w, h |-> h]
    ELSE IF mx * h >= w * my
    THEN \* x / y >= aspect: x = round_aspect(y * aspect, |aspect - n / y|)
         LET fl == (my * w) \div h
             ce == IF (my * w) % h = 0 THEN fl ELSE fl + 1
         IN [w |-> RoundAspect(my * w, h, Abs(my * w - fl * h), Abs(my * w - ce * h)),
             h |-> my]
    ELSE \* y = round_aspect(x / aspect, 0 if n == 0 else |aspect - x / n|)
         LET fl == (mx * h) \div w
             ce == IF (mx * h) % w = 0 THEN fl ELSE fl + 1
         IN [w |-> mx,
             h |-> RoundAspect(mx * h, w,
                               IF fl = 0 THEN 0 ELSE Abs(w * fl - mx * h) * ce,
                               Abs(w * ce - mx * h) * fl)]

\* The image after image.thumbnail((mx, my), LANCZOS). Image.resize filters
\* RGBA and LA premultiplied, which leaves a clear pixel black.
thumbnail(image, mx, my) ==
    LET t == ThumbnailSize(image.w, image.h, mx, my) IN
    IF t.w = image.w /\ t.h = image.h THEN image
    ELSE [image EXCEPT !.w = t.w, !.h = t.h,
                       !.px = Append(@, Op("lanczos", t.w, t.h)),
                       !.sc = IF image.mode \in {"RGBA", "LA"} /\ image.sa = "clear"
                              THEN "black" ELSE @]

\* Variant: `return image.resize(max_size)`, which ignores the proportions.
resize_image_stretch(image) ==
    IF image.w > MaxSize \/ image.h > MaxSize
    THEN [image EXCEPT !.w = MaxSize, !.h = MaxSize,
                       !.px = Append(@, Op("lanczos", MaxSize, MaxSize))]
    ELSE image

\* Variant: the size test is dropped and the image is always scaled to fit
\* the bound, so a small image is enlarged.
resize_image_always(image) ==
    LET t == IF image.w >= image.h
             THEN [w |-> MaxSize, h |-> Max2((MaxSize * image.h) \div image.w, 1)]
             ELSE [w |-> Max2((MaxSize * image.w) \div image.h, 1), h |-> MaxSize]
    IN [image EXCEPT !.w = t.w, !.h = t.h,
                     !.px = Append(@, Op("lanczos", t.w, t.h))]

\* utils.py 59-62.
resize_image_if_needed(image) ==
    IF image.w > MaxSize \/ image.h > MaxSize
    THEN thumbnail(image, MaxSize, MaxSize)
    ELSE image

\* Variant: the image is transposed but its orientation tag is kept.
exif_transpose_keep_tag(image) ==
    IF image.orient \in 2..8
    THEN [image EXCEPT !.w = IF image.orient \in Swapping THEN image.h ELSE image.w,
                       !.h = IF image.orient \in Swapping THEN image.w ELSE image.h,
                       !.px = Append(@, Op("transpose", image.orient, 0))]
    ELSE image

\* Pillow's ImageOps.exif_transpose, called at utils.py 80: orientations
\* 2..8 are undone by a flip or rotation (5..8 exchange width and height)
\* and the tag is removed; with no tag or tag 1 the result is a copy.
exif_transpose(image) ==
    IF image.orient \in 2..8
    THEN [image EXCEPT !.w = IF image.orient \in Swapping THEN image.h ELSE image.w,
                       !.h = IF image.orient \in Swapping THEN image.w ELSE image.h,
                       !.orient = 0,
                       !.px = Append(@, Op("transpose", image.orient, 0))]
    ELSE image

\* utils.py 83-91: the colour-mode step.
ConvertToRGB(image) ==
    IF image.mode \in {"RGBA", "LA", "P"}
    THEN \* a new white RGB canvas (no EXIF) with the image pasted on it,
         \* through its alpha band when the mode is (or became) RGBA; an LA
         \* image is pasted with mask=None, its alpha band unused (line 88)
         [image EXCEPT !.mode = "RGB", !.orient = 0,
                       !.px = Append(@, Op(IF image.mode = "LA" THEN "paste"
                                           ELSE "composite", 0, 0)),
                       !.sc = IF image.mode # "LA" /\ image.sa = "clear"
                              THEN "white" ELSE @,
                       !.sa = "opaque"]
    ELSE IF image.mode # "RGB"
    THEN \* convert('RGB') drops an alpha band without compositing
         [image EXCEPT !.mode = "RGB", !.px = Append(@, Op("convert", 0, 0)),
                       !.sa = "opaque"]
    ELSE image

\* utils.py 65-93.
optimize_image_for_api(image) ==
    ConvertToRGB(exif_transpose(resize_image_if_needed(image)))

\* The object passed to optimize_image_for_api, after the call: thumbnail
\* (line 61) changes it in place and line 62 returns that same object;
\* exif_transpose and the colour-mode step build new images.
InputAfterOptimize(image) == resize_image_if_needed(image)

InitNorm ==
    /\ env = None
    /\ ExtractorIdle
    /\ img \in {<<i>> : i \in Images}
    /\ once = <<>>
    /\ twice = <<>>
    /\ after = <<>>
    /\ stage = "input"
    /\ PureIdle
    /\ FrontIdle

\* optimize_image_for_api(img).
Normalize ==
    /\ stage = "input"
    /\ once' = <<optimize_image_for_api(img[1])>>
    /\ after' = <<InputAfterOptimize(img[1])>>
    /\ stage' = "once"
    /\ UNCHANGED <<img, twice, extractorVars, pureVars, frontVars>>

\* optimize_image_for_api applied to its own output.
NormalizeAgain ==
    /\ stage = "once"
    /\ twice' = <<optimize_image_for_api(once[1])>>
    /\ stage' = "twice"
    /\ UNCHANGED <<img, once, after, extractorVars, pureVars, frontVars>>

NextNorm == Normalize \/ NormalizeAgain

SpecNorm == InitNorm /\ [][NextNorm]_vars

(***************************************************************************)
(* The JSON export: DinosaurInfo.model_dump_json and model_validate_json   *)
(***************************************************************************)

\* A text is a sequence of characters. "quote", "backslash" and "newline"
\* name the characters JSON must escape, "cyr" a Cyrillic letter; "space" is
\* produced by the writer only.
JsonTexts == { <<>>, <<"a">>, <<"cyr">>, <<"quote", "a">>, <<"backslash", "n">>,
               <<"a", "newline">> }

JsonRecords == [FieldSet -> JsonTexts]

Indents == {"none", "two"}

\* Variant: a writer that escapes the quote and the newline but leaves the
\* backslash as it is.
EscapeKeepBackslash(ch) ==
    IF ch = "quote" THEN <<"backslash", "quote">>
    ELSE IF ch = "newline" THEN <<"backslash", "n">>
    ELSE <<ch>>

\* The writer's escaping of one character of a string; letters outside
\* ASCII are written as they are.
Escape(ch) ==
    IF ch = "quote" THEN <<"backslash", "quote">>
    ELSE IF ch = "backslash" THEN <<"backslash", "backslash">>
    ELSE IF ch = "newline" THEN <<"backslash", "n">>
    ELSE <<ch>>

RECURSIVE EscapeText(_)
EscapeText(t) == IF t = <<>> THEN <<>> ELSE Escape(Head(t)) \o EscapeText(Tail(t))

JsonString(t) == <<"quote">> \o EscapeText(t) \o <<"quote">>

\* One member `"name": "value"`; the name of a field stands as one character.
JsonMember(g, t, indent) ==
    IF indent = "two"
    THEN <<"newline", "space", "space">> \o JsonString(<<g>>) \o <<":", "space">>
             \o JsonString(t)
    ELSE JsonString(<<g>>) \o <<":">> \o JsonString(t)

RECURSIVE JsonMembers(_, _, _)
JsonMembers(rec, i, indent) ==
    IF i > Len(Fields) THEN <<>>
    ELSE JsonMember(Fields[i], rec[Fields[i]], indent)
             \o (IF i < Len(Fields) THEN <<",">> ELSE <<>>)
             \o JsonMembers(rec, i + 1, indent)

\* info.model_dump_json(indent=...): the fields in declaration order.
model_dump_json(rec, indent) ==
    <<"{">> \o JsonMembers(rec, 1, indent)
        \o (IF indent = "two" THEN <<"newline">> ELSE <<>>) \o <<"}">>

ParseFail == [ok |-> FALSE, text |-> <<>>, next |-> 0]

RECURSIVE SkipWs(_, _)
SkipWs(s, i) ==
    IF i <= Len(s) /\ s[i] \in {"space", "newline"} THEN SkipWs(s, i + 1) ELSE i

\* The characters of a string up to its closing quote, unescaped; a raw
\* newline or an unknown escape is a syntax error.
RECURSIVE ReadChars(_, _, _)
ReadChars(s, j, acc) ==
    IF j > Len(s) THEN ParseFail
    ELSE IF s[j] = "quote" THEN [ok |-> TRUE, text |-> acc, next |-> j + 1]
    ELSE IF s[j] = "newline" THEN ParseFail
    ELSE IF s[j] = "backslash"
         THEN IF j + 1 > Len(s) THEN ParseFail
              ELSE IF s[j + 1] = "quote" THEN ReadChars(s, j + 2, Append(acc, "quote"))
              ELSE IF s[j + 1] = "backslash"
                   THEN ReadChars(s, j + 2, Append(acc, "backslash"))
              ELSE IF s[j + 1] = "n" THEN ReadChars(s, j + 2, Append(acc, "newline"))
              ELSE ParseFail
    ELSE ReadChars(s, j + 1, Append(acc, s[j]))

ReadString(s, i) ==
    IF i <= Len(s) /\ s[i] = "quote" THEN ReadChars(s, i + 1, <<>>) ELSE ParseFail

\* The members of an object from position i on: a sequence of <<name, text>>
\* pairs, or failure.
RECURSIVE ReadMembers(_, _, _)
ReadMembers(s, i, acc) ==
    LET k == ReadString(s, SkipWs(s, i)) IN
    IF ~k.ok THEN [ok |-> FALSE, members |-> <<>>]
    ELSE LET c == SkipWs(s, k.next) IN
         IF c > Len(s) \/ s[c] # ":" THEN [ok |-> FALSE, members |-> <<>>]
         ELSE LET v == ReadString(s, SkipWs(s, c + 1)) IN
              IF ~v.ok THEN [ok |-> FALSE, members |-> <<>>]
              ELSE LET e == SkipWs(s, v.next)
                       got == Append(acc, <<k.text, v.text>>) IN
                   IF e > Len(s) THEN [ok |-> FALSE, members |-> <<>>]
                   ELSE IF s[e] = "," THEN ReadMembers(s, e + 1, got)
                   ELSE IF s[e] = "}" /\ SkipWs(s, e + 1) > Len(s)
                        THEN [ok |-> TRUE, members |-> got]
                   ELSE [ok |-> FALSE, members |-> <<>>]

\* DinosaurInfo.model_validate_json(text): <<record>>, or <<>> when the text
\* is no JSON object or lacks one of the four fields.
model_validate_json(s) ==
    LET o == SkipWs(s, 1) IN
    IF o > Len(s) \/ s[o] # "{" THEN <<>>
    ELSE LET m == ReadMembers(s, o + 1, <<>>) IN
         IF ~m.ok THEN <<>>
         ELSE IF \E g \in FieldSet :
                     ~\E i \in 1..Len(m.members) : m.members[i][1] = <<g>>
              THEN <<>>
         ELSE << [g \in FieldSet |->
                    LET last == CHOOSE i \in 1..Len(m.members) :
                                    /\ m.members[i][1] = <<g>>
                                    /\ \A j \in (i + 1)..Len(m.members) :
                                           m.members[j][1] # <<g>>
                    IN m.members[last][2]] >>

InitJson ==
    /\ env = None
    /\ ExtractorIdle
    /\ NormIdle
    /\ jrec \in {<<r>> : r \in JsonRecords}
    /\ jorig = <<>> /\ jtext = <<>> /\ jback = <<>>
    /\ jstage = "record"
    /\ size = <<>> /\ label = ""
    /\ FrontIdle

\* test_dino.py 61, app.py 187: json_data = info.model_dump_json(...)
DumpJson(indent) ==
    /\ jstage = "record"
    /\ jtext' = model_dump_json(jrec[1], indent)
    /\ jstage' = "dumped"
    /\ UNCHANGED <<jrec, jorig, jback, size, label, extractorVars, normVars, frontVars>>

\* test_dino.py 65: restored = DinosaurInfo.model_validate_json(json_data)
ParseJson ==
    /\ jstage = "dumped"
    /\ jback' = model_validate_json(jtext)
    /\ jstage' = "parsed"
    /\ UNCHANGED <<jrec, jorig, jtext, size, label, extractorVars, normVars, frontVars>>

NextJson == (\E indent \in Indents : DumpJson(indent)) \/ ParseJson

SpecJson == InitJson /\ [][NextJson]_vars

(***************************************************************************)
(* A returned record: models.py 5-19                                       *)
(***************************************************************************)

\* The records an analysis call can return.
ReturnedRecords == [FieldSet -> Texts]

\* jrec is the DinosaurInfo object the caller holds, jorig its field values
\* when the analysis call returned it.
InitRecord ==
    /\ env = None
    /\ ExtractorIdle
    /\ NormIdle
    /\ jrec \in {<<r>> : r \in ReturnedRecords}
    /\ jorig = jrec
    /\ jtext = <<>> /\ jback = <<>>
    /\ jstage = "returned"
    /\ size = <<>> /\ label = ""
    /\ FrontIdle

\* info.<field> = value. DinosaurInfo is a plain BaseModel: the class sets
\* no model_config (neither frozen nor validate_assignment), so the
\* assignment stores the value.
SetAttr(g, v) ==
    /\ jstage \in {"returned", "assigned"}
    /\ jrec' = <<[jrec[1] EXCEPT ![g] = v]>>
    /\ jstage' = "assigned"
    /\ UNCHANGED <<jorig, jtext, jback, size, label, extractorVars, normVars, frontVars>>

NextRecord == \E g \in FieldSet, v \in Texts : SetAttr(g, v)

SpecRecord == InitRecord /\ [][NextRecord]_vars

(***************************************************************************)
(* format_file_size: utils.py 164-180                                      *)
(***************************************************************************)

\* A byte count is written in base 1024, lowest digit first, so that counts
\* of 1024^4 and more stay within the checker's integers.
Base == 1024
MaxDigits == 5
Digits == {0, 1, Base - 1}

ByteCounts == UNION {[1..n -> Digits] : n \in 1..MaxDigits}

Units == <<"B", "KB", "MB", "GB">>

\* The running value of the loop: whole part and fraction, both in base-1024
\* digits (ip lowest first, fp highest first).
AsValue(d) == [ip |-> d, fp |-> <<>>]

\* size_bytes < 1024.0
Below1024(v) == \A i \in 2..Len(v.ip) : v.ip[i] = 0

\* size_bytes /= 1024.0 : a float division, the lowest digit moves into
\* the fraction.
Div1024(v) ==
    IF v.ip = <<>> THEN [ip |-> <<>>, fp |-> <<0>> \o v.fp]
    ELSE [ip |-> Tail(v.ip), fp |-> <<Head(v.ip)>> \o v.fp]

\* Variant: the division comes before the test.
RECURSIVE FormatLoopDivideFirst(_, _)
FormatLoopDivideFirst(v, k) ==
    IF k > Len(Units) THEN "TB"
    ELSE IF Below1024(Div1024(v)) THEN Units[k]
    ELSE FormatLoopDivideFirst(Div1024(v), k + 1)

\* Lines 175-179: the loop over the units, from unit number k on.
RECURSIVE FormatLoop(_, _)
FormatLoop(v, k) ==
    IF k > Len(Units) THEN "TB"
    ELSE IF Below1024(v) THEN Units[k]
    ELSE FormatLoop(Div1024(v), k + 1)

\* The unit of format_file_size(size_bytes); the digits before the unit are
\* not modelled.
format_file_size(d) == FormatLoop(AsValue(d), 1)

InitSize ==
    /\ env = None
    /\ ExtractorIdle
    /\ NormIdle
    /\ jrec = <<>> /\ jorig = <<>> /\ jtext = <<>> /\ jback = <<>>
    /\ jstage = "off"
    /\ size \in {<<d>> : d \in ByteCounts}
    /\ label = ""
    /\ FrontIdle

FormatSize ==
    /\ label = ""
    /\ label' = format_file_size(size[1])
    /\ UNCHANGED <<size, jrec, jorig, jtext, jback, jstage, extractorVars, normVars, frontVars>>

NextSize == FormatSize

SpecSize == InitSize /\ [][NextSize]_vars

(***************************************************************************)
(* The web front ends: app.py and streamlit_app.py                         *)
(***************************************************************************)

Apps == {"app", "streamlit_app"}

\* streamlit_app.py 33: the value .env.example ships with.
Placeholder == "your_api_key_here"

FrontEnvValues == EnvValues \cup {Placeholder}
SecretValues == {None, "", "ksec"}
TextInputs == {"", "k1"}

\* The service outcomes the front ends are run against.
FrontOutcomes ==
    {o \in ServiceOutcomes :
        \/ o.kind = "raise"
        \/ o.kind = "text" /\ o.payload.shape = "malformed"
        \/ /\ o.kind = "text" /\ o.payload.shape = "object"
           /\ \A g \in FieldSet : o.payload.f[g] = Str("Rex")}

\* Variant: has_env_key = bool(env_api_key), without the placeholder test.
has_env_key_any(e) == Truthy(e)

\* streamlit_app.py 32-33.
has_env_key(e) == Truthy(e) /\ e # Placeholder

\* app.py 43-56: the secret if it is set, else the text input.
api_key_app(sec, text) == IF Truthy(sec) THEN sec ELSE text

\* streamlit_app.py 35-47: the environment value if has_env_key, else the
\* text input.
api_key_streamlit(e, text) == IF has_env_key(e) THEN e ELSE text

\* The api_key of caller c's script run.
FrontKey(c) ==
    IF front[c].app = "app" THEN api_key_app(secret, front[c].text)
    ELSE api_key_streamlit(env, front[c].text)

\* The text input is rendered only in the else branch (app.py 48-56,
\* streamlit_app.py 39-47).
TextInputShown(c) ==
    IF front[c].app = "app" THEN ~Truthy(secret) ELSE ~has_env_key(env)

InitFront ==
    /\ env \in FrontEnvValues
    /\ secret \in SecretValues
    /\ ExtractorIdle
    /\ NormIdle
    /\ PureIdle
    /\ front \in [Callers -> {[app |-> a, text |-> "", last |-> "none"] : a \in Apps}]

\* The user types into the text input; the script reruns.
EnterKey(c, text) ==
    /\ pc[c] = "idle"
    /\ TextInputShown(c)
    /\ front' = [front EXCEPT ![c] = [@ EXCEPT !.text = text, !.last = "none"]]
    /\ UNCHANGED <<secret, extractorVars, normVars, pureVars>>

\* analyze_dinosaur(image, api_key, col2), app.py 117-145 and
\* streamlit_app.py 103-130, up to the request: the constructor and
\* analyze_image_from_pil.
analyze_dinosaur(c, image, api_key, name) ==
    /\ arg' = [arg EXCEPT ![c] = api_key]
    /\ IF CredentialMissing(api_key, env)
       THEN /\ pc' = [pc EXCEPT ![c] = "raised"]
            /\ exc' = [exc EXCEPT ![c] = "ValueError"]
            /\ UNCHANGED <<configured, analyzer, api, input, fs, temp, nreq, client>>
       ELSE /\ configured' = EffectiveKey(api_key, env)
            /\ analyzer' = [analyzer EXCEPT ![c] = EffectiveKey(api_key, env)]
            /\ api' = [api EXCEPT ![c] = "pil"]
            /\ input' = [input EXCEPT ![c] = image]
            /\ exc' = exc
            /\ IF image = "ok"
               THEN /\ fs' = save_temp_image(fs, name, c)
                    /\ temp' = [temp EXCEPT ![c] = {name}]
                    /\ nreq' = [nreq EXCEPT ![c] = @ + 1]
                    /\ client' = [client EXCEPT
                                     ![c] = ClientOnFirstUse(@, configured', analyzer'[c])]
                    /\ pc' = [pc EXCEPT ![c] = "submitted"]
               ELSE /\ pc' = [pc EXCEPT ![c] = "returned"]
                    /\ UNCHANGED <<fs, temp, nreq, client>>
    /\ UNCHANGED <<env, out, result, cleaned>>

\* The analyse button is pressed. app.py 84-108: the button exists only
\* under `if api_key:`. streamlit_app.py 92-96: the handler tests
\* `if not api_key` and shows an error.
PressAnalyse(c, image, name) ==
    /\ pc[c] = "idle"
    /\ front[c].app = "app" => Truthy(FrontKey(c))
    /\ IF front[c].app = "streamlit_app" /\ ~Truthy(FrontKey(c))
       THEN /\ front' = [front EXCEPT ![c].last = "need_key"]
            /\ UNCHANGED extractorVars
       ELSE /\ front' = [front EXCEPT ![c].last = "analysed"]
            /\ analyze_dinosaur(c, image, FrontKey(c), name)
    /\ UNCHANGED <<secret, normVars, pureVars>>

NextFront ==
    \/ \E c \in Callers, t \in TextInputs : EnterKey(c, t)
    \/ \E c \in Callers, i \in PilInputs, n \in Names : PressAnalyse(c, i, n)
    \/ \E c \in Callers, o \in FrontOutcomes : ServiceReturn(c, o)
    \/ \E c \in Callers : Discard(c)

SpecFront == InitFront /\ [][NextFront]_vars

(***************************************************************************)
(* Claims about the extractor (checked under Spec)                         *)
(***************************************************************************)

\* The call of caller c has ended: it returned, or an exception left it.
Ended(c) == pc[c] \in {"returned", "raised"}

\* The credential is absent or empty, in the words of the claims: api_key is
\* None with GEMINI_API_KEY unset or empty, or api_key is the empty string.
AbsentCredential(c) ==
    \/ arg[c] = None /\ env \in {None, ""}
    \/ arg[c] = ""

\* The payload is malformed JSON, is no single object, lacks a field, or
\* carries a non-text value for a field.
DefectivePayload(p) ==
    \/ p.shape # "object"
    \/ \E g \in FieldSet : p.f[g].t # "str"

\* C1: constructing an analyzer with an absent or empty credential ends in
\* ValueError, no analyzer exists, and the caller has made no request to the
\* inference service.
C1_NoCredentialNoRequest ==
    \A c \in Callers :
        (pc[c] # "idle" /\ AbsentCredential(c)) =>
            /\ pc[c] = "raised"
            /\ exc[c] = "ValueError"
            /\ analyzer[c] = None
            /\ nreq[c] = 0
            /\ out[c] = NoOutcome

C1_Witness ==
    \E c \in Callers : /\ pc[c] = "raised" /\ exc[c] = "ValueError"
                       /\ arg[c] = None /\ env = ""

C4_DefectivePayloadNoRecord ==
    \A c \in Callers :
        /\ (Ended(c) /\ out[c].kind = "text" /\ DefectivePayload(out[c].payload)) =>
               (pc[c] = "returned" /\ result[c] = <<>>)
        /\ result[c] # <<>> =>
               /\ DOMAIN result[c][1] = FieldSet
               /\ \A g \in FieldSet : out[c].payload.f[g].t = "str"

C4_Witness ==
    /\ \E c \in Callers : /\ pc[c] = "returned" /\ api[c] = "path" /\ result[c] = <<>>
                          /\ out[c].kind = "text" /\ out[c].payload.shape = "object"
                          /\ out[c].payload.f["brief_info"] = Absent
    /\ \E c \in Callers : /\ pc[c] = "returned" /\ api[c] = "pil" /\ result[c] = <<>>
                          /\ out[c].kind = "text"
                          /\ out[c].payload.f["color_description"] = Number

\* C5 as stated: when the request fails (generate_content raises, or the
\* response has no readable text) both methods return None and no exception
\* leaves them.
C5_ServiceFailureReturnsNone ==
    \A c \in Callers :
        (Ended(c) /\ out[c].kind \in {"raise", "notext"}) =>
            (pc[c] = "returned" /\ result[c] = <<>>)

\* C6: one call invokes generate_content at most once, and once the call has
\* ended it makes no further request.
C6_SingleAttempt ==
    /\ [](\A c \in Callers : nreq[c] <= 1)
    /\ [][\A c \in Callers : (Ended(c) /\ pc'[c] # "ready" /\ pc'[c] # "idle")
                                => nreq'[c] = nreq[c]]_vars

C6_Witness ==
    \E c \in Callers : /\ pc[c] = "returned" /\ nreq[c] = 1
                       /\ out[c].kind = "raise" /\ result[c] = <<>>

\* C7: a payload that is one object with the four fields as text yields a
\* record whose four fields equal the payload's values.
C7_RecordVerbatim ==
    \A c \in Callers :
        (Ended(c) /\ out[c].kind = "text" /\ ~DefectivePayload(out[c].payload)) =>
            /\ pc[c] = "returned"
            /\ Len(result[c]) = 1
            /\ \A g \in FieldSet : result[c][1][g] = out[c].payload.f[g].s

C7_Witness ==
    \E c \in Callers : /\ pc[c] = "returned" /\ result[c] # <<>>
                       /\ result[c][1]["species_name"] = "Rex"
                       /\ result[c][1]["color_description"] = ""
                       /\ result[c][1]["brief_info"] = "Rex"

C15_OwnCredential ==
    \A c \in Callers : nreq[c] > 0 => client[c] = analyzer[c]

\* C16: analyze_image on a path that does not exist or a file that cannot be
\* decoded returns None and has made no request.
C16_BadFileNoRequest ==
    \A c \in Callers :
        (pc[c] # "ready" /\ api[c] = "path"
           /\ input[c] \in {"missing", "corrupt", "truncated"}) =>
            /\ pc[c] = "returned"
            /\ result[c] = <<>>
            /\ nreq[c] = 0
            /\ out[c] = NoOutcome

C16_Witness ==
    /\ pc["c1"] = "returned" /\ api["c1"] = "path" /\ input["c1"] = "corrupt"
    /\ pc["c2"] = "returned" /\ api["c2"] = "path" /\ input["c2"] = "missing"
    /\ nreq["c1"] = 0 /\ nreq["c2"] = 0

\* C18: a payload with the four field names and empty-string values is a
\* success: the call returns a record whose four fields are empty strings.
C18_EmptyStringsAccepted ==
    \A c \in Callers :
        (Ended(c) /\ out[c].kind = "text" /\ out[c].payload.shape = "object"
           /\ \A g \in FieldSet : out[c].payload.f[g] = Str("")) =>
            /\ pc[c] = "returned"
            /\ result[c] = <<[g \in FieldSet |-> ""]>>

C18_Witness ==
    \E c \in Callers : /\ pc[c] = "returned" /\ api[c] = "pil"
                       /\ out[c].kind = "text"
                       /\ \A g \in FieldSet : out[c].payload.f[g] = Str("")
                       /\ Len(result[c]) = 1
                       /\ \A g \in FieldSet : result[c][1][g] = ""

\* C20: the analyzer's credential is api_key whenever api_key is not None and
\* the environment value only when it is None; an explicit empty string
\* ends in ValueError even when the environment holds a key.
C20_CredentialSource ==
    \A c \in Callers :
        pc[c] # "idle" =>
            /\ (arg[c] # None /\ arg[c] # "") =>
                   (analyzer[c] = arg[c] /\ exc[c] # "ValueError")
            /\ (arg[c] = None /\ env # None /\ env # "") =>
                   (analyzer[c] = env /\ exc[c] # "ValueError")
            /\ arg[c] = "" =>
                   (pc[c] = "raised" /\ exc[c] = "ValueError" /\ analyzer[c] = None)

C20_Witness ==
    /\ env = "kenv"
    /\ pc["c1"] = "raised" /\ arg["c1"] = "" /\ exc["c1"] = "ValueError"
    /\ pc["c2"] = "ready" /\ arg["c2"] = "k1" /\ analyzer["c2"] = "k1"

\* Caller c is inside analyze_image_from_pil, between save_temp_image and
\* the finally block.
HoldsTemp(c) == pc[c] = "submitted" /\ api[c] = "pil" /\ temp[c] # {}

\* C21 as stated: interleaved analyze_image_from_pil calls never hold the
\* same temporary path, so the cleanup of one call never removes a file
\* that another call persisted and has not yet cleaned up.
C21_UniqueTempPaths ==
    /\ [](\A c, d \in Callers :
             (c # d /\ HoldsTemp(c) /\ HoldsTemp(d)) => temp[c] \cap temp[d] = {})
    /\ [][\A c, d \in Callers :
             (c # d /\ HoldsTemp(c) /\ ~HoldsTemp(c)' /\ HoldsTemp(d) /\ HoldsTemp(d)')
                 => \A n \in temp[d] : fs[n] # NoFile => fs'[n] # NoFile]_vars

(***************************************************************************)
(* Claims about the normalizer (checked under SpecNorm)                    *)
(***************************************************************************)

\* The input exceeds the bound in a dimension.
Oversized(i) == i.w > MaxSize \/ i.h > MaxSize

\* The input's size as displayed: exchanged when its orientation tag says so.
UprightW(i) == IF i.orient \in Swapping THEN i.h ELSE i.w
UprightH(i) == IF i.orient \in Swapping THEN i.w ELSE i.h

\* (ow, oh) is (iw, ih) scaled so that the longer side is MaxSize, the other
\* side being less than one pixel away from its exact scaled length.
SameAspect(iw, ih, ow, oh) ==
    IF iw >= ih
    THEN ow = MaxSize /\ Abs(oh * iw - MaxSize * ih) < iw
    ELSE oh = MaxSize /\ Abs(ow * ih - MaxSize * iw) < ih

\* C8: for an input exceeding 1024 in a dimension the output fits in
\* 1024 x 1024 and has the input's proportions to within one pixel, also
\* when the orientation step exchanges width and height.
C8_BoundedSameAspect ==
    (stage # "input" /\ Oversized(img[1])) =>
        /\ once[1].w <= MaxSize
        /\ once[1].h <= MaxSize
        /\ once[1].w >= 1
        /\ once[1].h >= 1
        /\ SameAspect(UprightW(img[1]), UprightH(img[1]), once[1].w, once[1].h)

C8_Witness ==
    /\ stage = "once"
    /\ img[1].w = 2 * MaxSize /\ img[1].h = MaxSize + 1 /\ img[1].orient = 6
    /\ once[1].w = MaxSize \div 2 + 1 /\ once[1].h = MaxSize

\* C9: for an input within the bound in both dimensions the raster is not
\* resampled and the size is the input's (exchanged only by the orientation
\* step).
C9_SmallUntouched ==
    (stage # "input" /\ ~Oversized(img[1])) =>
        /\ once[1].w = UprightW(img[1])
        /\ once[1].h = UprightH(img[1])
        /\ \A k \in 1..Len(once[1].px) : once[1].px[k].op # "lanczos"

C9_Witness ==
    /\ stage = "once"
    /\ img[1].w = MaxSize /\ img[1].h = SmallDims /\ img[1].orient = 8
    /\ img[1].mode = "P"
    /\ once[1].w = SmallDims /\ once[1].h = MaxSize

\* C10: applying optimize_image_for_api to its own output gives an image of
\* the same size, mode and raster as applying it once.
C10_Idempotent ==
    stage = "twice" =>
        /\ twice[1].w = once[1].w
        /\ twice[1].h = once[1].h
        /\ twice[1].mode = once[1].mode
        /\ twice[1].px = once[1].px

C10_Witness ==
    /\ stage = "twice"
    /\ Oversized(img[1]) /\ img[1].orient = 5 /\ img[1].mode = "RGBA"
    /\ Len(once[1].px) = 3
    /\ twice[1] = once[1]

\* C11 as stated: for an input with a transparency channel the output has no
\* alpha channel and a pixel that was fully transparent in the input is
\* opaque white in the output.
C11_TransparentBecomesWhite ==
    (stage # "input" /\ img[1].mode \in AlphaModes /\ img[1].sa = "clear") =>
        /\ once[1].mode = "RGB"
        /\ once[1].sa = "opaque"
        /\ once[1].sc = "white"

\* C12 as stated: after optimize_image_for_api the object passed in has the
\* size, mode and raster it had before the call.
C12_InputUntouched ==
    stage # "input" =>
        /\ after[1].w = img[1].w
        /\ after[1].h = img[1].h
        /\ after[1].mode = img[1].mode
        /\ after[1].px = img[1].px

(***************************************************************************)
(* Claims about the JSON export (checked under SpecJson)                   *)
(***************************************************************************)

\* C13: dumping a record with model_dump_json, with or without indent, and
\* parsing the text with model_validate_json gives back a record equal to
\* the original in all four fields, non-Latin text included.
C13_RoundTrip ==
    jstage = "parsed" =>
        /\ Len(jback) = 1
        /\ \A g \in FieldSet : jback[1][g] = jrec[1][g]

C13_Witness ==
    /\ jstage = "parsed" /\ jback = jrec
    /\ jrec[1]["species_name"] = <<"cyr">>
    /\ jrec[1]["geological_period"] = <<"backslash", "n">>
    /\ jrec[1]["color_description"] = <<"quote", "a">>
    /\ jrec[1]["brief_info"] = <<"a", "newline">>
    /\ jtext[2] = "newline"

(***************************************************************************)
(* Claims about a returned record (checked under SpecRecord)               *)
(***************************************************************************)

\* C17 as stated: once an analysis call has returned a record, nothing the
\* caller can do changes the value of any of its four fields.
C17_RecordImmutable ==
    jstage \in {"returned", "assigned"} =>
        \A g \in FieldSet : jrec[1][g] = jorig[1][g]

(***************************************************************************)
(* Claims about format_file_size (checked under SpecSize)                  *)
(***************************************************************************)

\* n < 1024^e, for a count n given by its base-1024 digits.
BelowPower(d, e) == \A i \in (e + 1)..Len(d) : d[i] = 0

\* C19: the unit is the first of B, KB, MB, GB (k = 0..3) for which
\* n / 1024^k < 1024, that is n < 1024^(k+1), and TB when n >= 1024^4; every
\* n with 1024 <= n < 1024^2 is reported in KB.
C19_UnitByDivision ==
    label # "" =>
        LET n == size[1] IN
        /\ \A k \in 0..3 :
               (BelowPower(n, k + 1) /\ \A j \in 0..(k - 1) : ~BelowPower(n, j + 1))
                   => label = Units[k + 1]
        /\ ~BelowPower(n, 4) => label = "TB"
        /\ (~BelowPower(n, 1) /\ BelowPower(n, 2)) => label = "KB"
        /\ label \in {"B", "KB", "MB", "GB", "TB"}

C19_Witness ==
    /\ label = "KB"
    /\ size = << <<Base - 1, Base - 1>> >>

(***************************************************************************)
(* Claims about the web front ends (checked under SpecFront)               *)
(***************************************************************************)

\* The credential in effect in caller c's session: in app.py the secret when
\* one is set, in streamlit_app.py the environment value when it is set and
\* is not the placeholder, and the text-input value otherwise.
CredentialInEffect(c) ==
    IF front[c].app = "app"
    THEN IF secret \notin {None, ""} THEN secret ELSE front[c].text
    ELSE IF env \notin {None, "", Placeholder} THEN env ELSE front[c].text

\* C22: in both front ends, while the credential in effect is empty a press
\* of the analyse button constructs no analyzer and causes no request; in
\* streamlit_app.py an environment value equal to the placeholder counts as
\* none, so the analyzer is constructed with the text-input value.
C22_NoPressWithoutCredential ==
    \A c \in Callers :
        /\ CredentialInEffect(c) = "" =>
               /\ pc[c] = "idle" /\ arg[c] = None /\ analyzer[c] = None
               /\ nreq[c] = 0 /\ out[c] = NoOutcome
               /\ front[c].last # "analysed"
        /\ pc[c] # "idle" =>
               (arg[c] = CredentialInEffect(c) /\ analyzer[c] = CredentialInEffect(c))
        /\ (front[c].app = "streamlit_app" /\ env = Placeholder /\ pc[c] # "idle") =>
               (arg[c] = front[c].text /\ analyzer[c] = front[c].text)

C22_Witness ==
    /\ env = Placeholder
    /\ front["c1"] = [app |-> "streamlit_app", text |-> "", last |-> "need_key"]
    /\ pc["c1"] = "idle" /\ nreq["c1"] = 0
    /\ front["c2"] = [app |-> "streamlit_app", text |-> "k1", last |-> "analysed"]
    /\ pc["c2"] = "submitted" /\ analyzer["c2"] = "k1" /\ nreq["c2"] = 1

====
